---- MODULE Spec2Model ----
(***************************************************************************)
(* Weather-Tracker (src/main.go): an HTTP gateway with two routes.         *)
(* /hello answers a fixed greeting; /weather/<city> reads the API key from *)
(* the file .apiConfig, calls the upstream weather API and relays the      *)
(* decoded record as JSON.  Every inbound request runs in a goroutine of   *)
(* its own; the file system and the upstream are the environment.          *)
(*                                                                         *)
(* Strings that the code takes apart (the request path) are sequences of   *)
(* one-character strings.  JSON documents are modelled by their structure: *)
(*   [t |-> "bad"]                      text that is not JSON              *)
(*   [t |-> "null"]                     null                               *)
(*   [t |-> "arr"]                      an array                           *)
(*   [t |-> "str", s |-> <<units>>]     a string literal, unit by unit     *)
(*   [t |-> "num", m |-> m, e |-> e]    the number literal m * 10^e        *)
(*   [t |-> "obj", mem |-> <<members>>] an object, members in file order,  *)
(*                                      each [k |-> key, v |-> value]      *)
(***************************************************************************)
EXTENDS Integers, Sequences, FiniteSets, TLC

VARIABLES
    file,      \* content of .apiConfig; [t |-> "missing"] when it cannot be read
    pc,        \* pc[r]: where the goroutine serving request r stands
    path,      \* path[r]: r.URL.Path of request r
    net,       \* net[r]: the outbound exchange of request r: the URL built,
               \* the request under way, or the reply the upstream gave
    resp,      \* resp[r]: what has been written to the ResponseWriter of r
    cfgReads,  \* cfgReads[r]: os.ReadFile calls made for r
    calls,     \* calls[r]: http.Get calls made for r
    writes     \* writes[r]: responses written for r

vars == <<file, pc, path, net, resp, cfgReads, calls, writes>>

(***************************************************************************)
(* Bounds and program constants                                            *)
(***************************************************************************)
NumRequests == 2
    \* requests in flight at once

SplitLimit == 3
    \* strings.SplitN(r.URL.Path, "/", 3)

StatusOK == 200
StatusMovedPermanently == 301
StatusBadRequest == 400
StatusInternalServerError == 500

MaxFloatExp10 == 308
    \* largest decimal exponent of a float64

Requests == 1..NumRequests

(***************************************************************************)
(* Go strings and JSON string literals                                     *)
(***************************************************************************)
\* json.Encoder escapes the characters <, > and & (SetEscapeHTML is on by default).
EscapeUnit(c) ==
    CASE c = "<" -> "\\u003c"
      [] c = ">" -> "\\u003e"
      [] c = "&" -> "\\u0026"
      [] OTHER   -> c

UnescapeUnit(u) ==
    CASE u = "\\u003c" -> "<"
      [] u = "\\u003e" -> ">"
      [] u = "\\u0026" -> "&"
      [] OTHER         -> u

\* The Go string a JSON string literal denotes.
Unquote(lit) == [i \in 1..Len(lit) |-> UnescapeUnit(lit[i])]

\* The JSON string literal json.Encoder writes for a Go string.
Quote(s) == [i \in 1..Len(s) |-> EscapeUnit(s[i])]

(***************************************************************************)
(* float64 and JSON number literals.  A literal is m * 10^e as written; a  *)
(* float64 is kept as the shortest decimal that denotes it, which is what  *)
(* strconv prints: no trailing zero in the mantissa, zero as 0 * 10^0.     *)
(***************************************************************************)
RECURSIVE Shortest(_, _)
Shortest(m, e) ==
    IF m = 0 THEN [m |-> 0, e |-> 0]
    ELSE IF m % 10 = 0 THEN Shortest(m \div 10, e + 1)
    ELSE [m |-> m, e |-> e]

RECURSIVE Digits(_)
Digits(m) == IF m < 10 THEN 1 ELSE 1 + Digits(m \div 10)

Abs(m) == IF m < 0 THEN -m ELSE m

\* strconv.ParseFloat(lit, 64): a range error when the value exceeds
\* the largest float64.
ParseFloat(lit) ==
    LET f == Shortest(lit.m, lit.e)
    IN  IF f.m # 0 /\ f.e + Digits(Abs(f.m)) - 1 > MaxFloatExp10
        THEN [ok |-> FALSE, f |-> [m |-> 0, e |-> 0]]
        ELSE [ok |-> TRUE, f |-> f]

\* The number literal json.Encoder writes for a float64.
FormatFloat(f) == [t |-> "num", m |-> f.m, e |-> f.e]

(***************************************************************************)
(* Error texts (err.Error()), one per kind of failure                      *)
(***************************************************************************)
NoError == ""
ErrNoFile == "open .apiConfig: no such file or directory"
ErrSyntax == "invalid character looking for beginning of value"
ErrType == "json: cannot unmarshal value into Go struct field"
ErrTransport == "Get: dial tcp: connection refused"
ErrBodyRead == "unexpected EOF"

\* decodeState.saveError: the first error is the one Unmarshal returns.
saveError(acc, e) == IF acc.err = NoError THEN [acc EXCEPT !.err = e] ELSE acc

(***************************************************************************)
(* type apiConfigData and json.Unmarshal into it                           *)
(***************************************************************************)
ApiKeyField == "OpenWeatherMapApiKey"

EmptyConfig == [OpenWeatherMapApiKey |-> <<>>]

\* One member of the object: a string sets the field, null leaves it, any
\* other value is a type error; members naming no field are skipped.
configMember(acc, mb) ==
    IF mb.k # ApiKeyField THEN acc
    ELSE CASE mb.v.t = "str"  -> [acc EXCEPT !.c.OpenWeatherMapApiKey = Unquote(mb.v.s)]
           [] mb.v.t = "null" -> acc
           [] OTHER           -> saveError(acc, ErrType)

RECURSIVE configObject(_, _, _)
configObject(mem, i, acc) ==
    IF i > Len(mem) THEN acc
    ELSE configObject(mem, i + 1, configMember(acc, mem[i]))

\* json.Unmarshal(bytes, &c): c as it is left, and the error returned.
UnmarshalConfig(doc) ==
    LET start == [c |-> EmptyConfig, err |-> NoError]
    IN  CASE doc.t = "bad"  -> [start EXCEPT !.err = ErrSyntax]
          [] doc.t = "null" -> start
          [] doc.t = "obj"  -> configObject(doc.mem, 1, start)
          [] OTHER          -> [start EXCEPT !.err = ErrType]

\* loadApiConfig returning c as Unmarshal left it: return c, err.
loadApiConfigKeepsPartial(f) ==
    IF f.t = "missing"
    THEN [c |-> EmptyConfig, err |-> ErrNoFile]
    ELSE UnmarshalConfig(f)

\* loadApiConfig(filename): (apiConfigData, error).
loadApiConfig(f) ==
    IF f.t = "missing"
    THEN [c |-> EmptyConfig, err |-> ErrNoFile]
    ELSE LET u == UnmarshalConfig(f)
         IN  IF u.err # NoError
             THEN [c |-> EmptyConfig, err |-> u.err]
             ELSE [c |-> u.c, err |-> NoError]

(***************************************************************************)
(* type weatherData and json.Unmarshal into it                             *)
(***************************************************************************)
ZeroFloat == [m |-> 0, e |-> 0]

EmptyWeather == [Name |-> <<>>, Main |-> [Kelvin |-> ZeroFloat]]

\* tempMember with the field tagged json:"temperature": temp names no field.
tempMemberWrongTag(acc, mb) ==
    IF mb.k # "temperature" THEN acc
    ELSE CASE mb.v.t = "num"  ->
                LET p == ParseFloat(mb.v)
                IN  IF p.ok THEN [acc EXCEPT !.d.Main.Kelvin = p.f]
                    ELSE saveError(acc, ErrType)
           [] mb.v.t = "null" -> acc
           [] OTHER           -> saveError(acc, ErrType)

\* tempMember dropping the type errors instead of saving them.
tempMemberLenient(acc, mb) ==
    IF mb.k # "temp" THEN acc
    ELSE CASE mb.v.t = "num"  ->
                LET p == ParseFloat(mb.v)
                IN  IF p.ok THEN [acc EXCEPT !.d.Main.Kelvin = p.f] ELSE acc
           [] OTHER           -> acc

tempMember(acc, mb) ==
    IF mb.k # "temp" THEN acc
    ELSE CASE mb.v.t = "num"  ->
                LET p == ParseFloat(mb.v)
                IN  IF p.ok THEN [acc EXCEPT !.d.Main.Kelvin = p.f]
                    ELSE saveError(acc, ErrType)
           [] mb.v.t = "null" -> acc
           [] OTHER           -> saveError(acc, ErrType)

RECURSIVE mainObject(_, _, _)
mainObject(mem, i, acc) ==
    IF i > Len(mem) THEN acc
    ELSE mainObject(mem, i + 1, tempMember(acc, mem[i]))

weatherMember(acc, mb) ==
    CASE mb.k = "name" ->
            (CASE mb.v.t = "str"  -> [acc EXCEPT !.d.Name = Unquote(mb.v.s)]
               [] mb.v.t = "null" -> acc
               [] OTHER           -> saveError(acc, ErrType))
      [] mb.k = "main" ->
            (CASE mb.v.t = "obj"  -> mainObject(mb.v.mem, 1, acc)
               [] mb.v.t = "null" -> acc
               [] OTHER           -> saveError(acc, ErrType))
      [] OTHER -> acc

RECURSIVE weatherObject(_, _, _)
weatherObject(mem, i, acc) ==
    IF i > Len(mem) THEN acc
    ELSE weatherObject(mem, i + 1, weatherMember(acc, mem[i]))

\* json.Unmarshal(body, &d): d as it is left, and the error returned.
UnmarshalWeather(doc) ==
    LET start == [d |-> EmptyWeather, err |-> NoError]
    IN  CASE doc.t = "bad"  -> [start EXCEPT !.err = ErrSyntax]
          [] doc.t = "null" -> start
          [] doc.t = "obj"  -> weatherObject(doc.mem, 1, start)
          [] OTHER          -> [start EXCEPT !.err = ErrType]

\* json.NewEncoder(w).Encode(data): the document written.
EncodeWeather(d) ==
    [t |-> "obj",
     mem |-> << [k |-> "name", v |-> [t |-> "str", s |-> Quote(d.Name)]],
                [k |-> "main",
                 v |-> [t |-> "obj",
                        mem |-> << [k |-> "temp",
                                    v |-> FormatFloat(d.Main.Kelvin)] >>]] >>]

(***************************************************************************)
(* Inputs: request paths, contents of .apiConfig, upstream replies         *)
(***************************************************************************)
HelloPath == <<"/", "h", "e", "l", "l", "o">>
WeatherRoot == <<"/", "w", "e", "a", "t", "h", "e", "r", "/">>
WeatherNoSlash == SubSeq(WeatherRoot, 1, Len(WeatherRoot) - 1)

Paths == {HelloPath, WeatherNoSlash, WeatherRoot, WeatherRoot \o <<"L">>}

Str(s) == [t |-> "str", s |-> s]
Num(m, e) == [t |-> "num", m |-> m, e |-> e]
Obj(mem) == [t |-> "obj", mem |-> mem]
Member(k, v) == [k |-> k, v |-> v]

FileMissing == [t |-> "missing"]
FileGarbage == [t |-> "bad"]
FileKey1 == Obj(<<Member(ApiKeyField, Str(<<"k", "1">>))>>)
FileKey2 == Obj(<<Member("comment", Str(<<"x">>)),
                  Member(ApiKeyField, Str(<<"k", "\\u0026", "2">>))>>)
FileKeyThenNumber == Obj(<<Member(ApiKeyField, Str(<<"k", "1">>)),
                           Member(ApiKeyField, Num(5, 0))>>)

Files == {FileMissing, FileGarbage, FileKey1, FileKey2, FileKeyThenNumber}

\* {"name":"<P","main":{"temp":20.50},"cod":200}
BodyGood == Obj(<<Member("name", Str(<<"\\u003c", "P">>)),
                  Member("main", Obj(<<Member("temp", Num(2050, -2))>>)),
                  Member("cod", Num(200, 0))>>)
\* {"cod":"404","message":"city not found"}
BodyNotFound == Obj(<<Member("cod", Str(<<"4", "0", "4">>)),
                      Member("message", Str(<<"n", "o">>))>>)
\* {"name":"P"}
BodyNameOnly == Obj(<<Member("name", Str(<<"P">>))>>)
\* {"name":"P","main":{"temp":"hot"}}
BodyTempString == Obj(<<Member("name", Str(<<"P">>)),
                        Member("main", Obj(<<Member("temp", Str(<<"h">>))>>))>>)
\* {"name":"P","main":{"temp":1e400}}
BodyTempHuge == Obj(<<Member("name", Str(<<"P">>)),
                      Member("main", Obj(<<Member("temp", Num(1, 400))>>))>>)
\* <html>502 Bad Gateway</html>
BodyHtml == [t |-> "bad"]

Bodies ==
    {BodyGood, BodyNotFound, BodyNameOnly, BodyTempString, BodyTempHuge, BodyHtml}

\* What comes back from the upstream: http.Get fails (getErr), or it
\* returns a response with a status and a body that io.ReadAll reads to the
\* end or fails on (readErr).
Reply(getErr, status, readErr, body) ==
    [k |-> "reply", getErr |-> getErr, status |-> status,
     readErr |-> readErr, body |-> body]

Replies ==
    {Reply(ErrTransport, 0, NoError, BodyHtml)}
    \cup {Reply(NoError, 200, ErrBodyRead, BodyHtml)}
    \cup {Reply(NoError, 200, NoError, b) : b \in Bodies \ {BodyHtml}}
    \cup {Reply(NoError, 404, NoError, b) : b \in {BodyGood, BodyNotFound, BodyHtml}}

NoExchange == [k |-> "none"]

(***************************************************************************)
(* strings.SplitN and the route table of http.DefaultServeMux              *)
(***************************************************************************)
\* Index of the first sep in s, 0 when there is none.
RECURSIVE Index(_, _, _)
Index(s, sep, i) ==
    IF i > Len(s) THEN 0
    ELSE IF s[i] = sep THEN i
    ELSE Index(s, sep, i + 1)

\* strings.SplitN(s, sep, n) for n > 0: at most n pieces, the last one the
\* unsplit rest.
RECURSIVE SplitN(_, _, _)
SplitN(s, sep, n) ==
    LET i == Index(s, sep, 1)
    IN  IF n <= 1 \/ i = 0 THEN <<s>>
        ELSE <<SubSeq(s, 1, i - 1)>> \o SplitN(SubSeq(s, i + 1, Len(s)), sep, n - 1)

HasPrefix(s, p) == Len(s) >= Len(p) /\ SubSeq(s, 1, Len(p)) = p

\* http.HandleFunc("/hello", ...) matches the path itself,
\* http.HandleFunc("/weather/", ...) the subtree below it; the subtree root
\* named without its slash is redirected to it.
Route(p) ==
    CASE p = HelloPath             -> "hello"
      [] HasPrefix(p, WeatherRoot) -> "weather"
      [] p = WeatherNoSlash        -> "redirect"
      [] OTHER                     -> "notfound"

(***************************************************************************)
(* Responses                                                               *)
(***************************************************************************)
TextChunk(s) == [kind |-> "text", v |-> s]
JsonChunk(doc) == [kind |-> "json", v |-> doc]

NoResponse == [status |-> 0, ctype |-> "", body |-> <<>>]

ContentTypeText == "text/plain; charset=utf-8"
ContentTypeJson == "application/json; charset=utf8"
ContentTypeHtml == "text/html; charset=utf-8"

\* http.Error(w, msg, code)
httpError(msg, code) ==
    [status |-> code, ctype |-> ContentTypeText,
     body |-> <<TextChunk(msg \o "\n")>>]

\* w.Header().Set("Content-Type", ...); json.NewEncoder(w).Encode(data)
jsonResponse(d) ==
    [status |-> StatusOK, ctype |-> ContentTypeJson,
     body |-> <<JsonChunk(EncodeWeather(d))>>]

(***************************************************************************)
(* query(city), from the return of http.Get on                             *)
(***************************************************************************)
\* The URL http.Get is called with: Sprintf puts the city and the key of
\* the configuration just loaded into the query, verbatim.
requestURL(city, apiConfig) ==
    [k |-> "url", q |-> city, appid |-> apiConfig.OpenWeatherMapApiKey,
     units |-> "metric"]

\* queryResult with the status checked: a response that is not 200 is an error.
queryResultChecksStatus(rp) ==
    IF rp.getErr # NoError THEN [d |-> EmptyWeather, err |-> rp.getErr]
    ELSE IF rp.status # StatusOK
    THEN [d |-> EmptyWeather, err |-> "unexpected status"]
    ELSE IF rp.readErr # NoError THEN [d |-> EmptyWeather, err |-> rp.readErr]
    ELSE LET u == UnmarshalWeather(rp.body)
         IN  IF u.err # NoError
             THEN [d |-> EmptyWeather, err |-> u.err]
             ELSE [d |-> u.d, err |-> NoError]

\* What query returns once the upstream has answered with reply rp.  The
\* status of the response is not looked at.
queryResult(rp) ==
    IF rp.getErr # NoError THEN [d |-> EmptyWeather, err |-> rp.getErr]
    ELSE IF rp.readErr # NoError THEN [d |-> EmptyWeather, err |-> rp.readErr]
    ELSE LET u == UnmarshalWeather(rp.body)
         IN  IF u.err # NoError
             THEN [d |-> EmptyWeather, err |-> u.err]
             ELSE [d |-> u.d, err |-> NoError]

\* respond without the return after http.Error: the record is encoded too.
respondNoReturn(res) ==
    IF res.err # NoError
    THEN [status |-> StatusInternalServerError, ctype |-> ContentTypeText,
          body |-> <<TextChunk(res.err \o "\n"), JsonChunk(EncodeWeather(res.d))>>]
    ELSE jsonResponse(res.d)

\* The handler after data, err := query(city).
respond(res) ==
    IF res.err # NoError
    THEN httpError(res.err, StatusInternalServerError)
    ELSE jsonResponse(res.d)

\* city := parts[2]
City(p) == SplitN(p, "/", SplitLimit)[SplitLimit]

(***************************************************************************)
(* The state machine                                                       *)
(***************************************************************************)
Init ==
    /\ file \in Files
    /\ pc = [r \in Requests |-> "idle"]
    /\ path = [r \in Requests |-> <<>>]
    /\ net = [r \in Requests |-> NoExchange]
    /\ resp = [r \in Requests |-> NoResponse]
    /\ cfgReads = [r \in Requests |-> 0]
    /\ calls = [r \in Requests |-> 0]
    /\ writes = [r \in Requests |-> 0]

\* The response rs is written for request r and its handler returns.
finish(r, rs) ==
    /\ pc' = [pc EXCEPT ![r] = "done"]
    /\ resp' = [resp EXCEPT ![r] = rs]
    /\ writes' = [writes EXCEPT ![r] = @ + 1]

\* The server accepts a request and starts a goroutine for it.  Requests
\* are numbered in the order they are accepted.
Arrive(r) ==
    /\ pc[r] = "idle"
    /\ \A s \in Requests : s < r => pc[s] # "idle"
    /\ \E p \in Paths : path' = [path EXCEPT ![r] = p]
    /\ pc' = [pc EXCEPT ![r] = "routed"]
    /\ UNCHANGED <<file, net, resp, cfgReads, calls, writes>>

\* func hello
hello(r) ==
    /\ pc[r] = "routed"
    /\ Route(path[r]) = "hello"
    /\ finish(r, [status |-> StatusOK, ctype |-> ContentTypeText,
                  body |-> <<TextChunk("Hello from go!\n")>>])
    /\ UNCHANGED <<file, path, net, cfgReads, calls>>

\* The mux answers /weather itself, with a redirect to /weather/.
muxRedirect(r) ==
    /\ pc[r] = "routed"
    /\ Route(path[r]) = "redirect"
    /\ finish(r, [status |-> StatusMovedPermanently, ctype |-> ContentTypeHtml,
                  body |-> <<TextChunk("<a href=\"/weather/\">Moved Permanently</a>.\n\n")>>])
    /\ UNCHANGED <<file, path, net, cfgReads, calls>>

\* The /weather/ handler up to the call of query.
weatherHandler(r) ==
    /\ pc[r] = "routed"
    /\ Route(path[r]) = "weather"
    /\ LET parts == SplitN(path[r], "/", SplitLimit)
       IN  IF Len(parts) < SplitLimit
           THEN /\ finish(r, httpError("City not specified", StatusBadRequest))
                /\ UNCHANGED <<file, path, net, cfgReads, calls>>
           ELSE /\ pc' = [pc EXCEPT ![r] = "query"]
                /\ UNCHANGED <<file, path, net, resp, cfgReads, calls, writes>>

\* queryLoadConfig with the error of loadApiConfig ignored.
queryLoadConfigIgnoresError(r) ==
    /\ pc[r] = "query"
    /\ cfgReads' = [cfgReads EXCEPT ![r] = @ + 1]
    /\ pc' = [pc EXCEPT ![r] = "loaded"]
    /\ net' = [net EXCEPT ![r] = requestURL(City(path[r]), loadApiConfig(file).c)]
    /\ UNCHANGED <<file, path, resp, calls, writes>>

\* queryLoadConfig with the configuration kept from a request under way.
queryLoadConfigCached(r) ==
    /\ pc[r] = "query"
    /\ LET holders == {s \in Requests : net[s].k \in {"url", "request"}}
       IN  IF holders # {}
           THEN /\ \E s \in holders :
                      net' = [net EXCEPT ![r] =
                                 [k |-> "url", q |-> City(path[r]),
                                  appid |-> net[s].appid, units |-> "metric"]]
                /\ pc' = [pc EXCEPT ![r] = "loaded"]
                /\ UNCHANGED <<cfgReads, resp, writes>>
           ELSE /\ cfgReads' = [cfgReads EXCEPT ![r] = @ + 1]
                /\ LET cfg == loadApiConfig(file)
                   IN  IF cfg.err # NoError
                       THEN /\ finish(r, respond([d |-> EmptyWeather, err |-> cfg.err]))
                            /\ UNCHANGED net
                       ELSE /\ pc' = [pc EXCEPT ![r] = "loaded"]
                            /\ net' = [net EXCEPT ![r] = requestURL(City(path[r]), cfg.c)]
                            /\ UNCHANGED <<resp, writes>>
    /\ UNCHANGED <<file, path, calls>>

\* query: loadApiConfig(".apiConfig"), then either the error goes back to
\* the handler, which answers 500, or the URL is built.
queryLoadConfig(r) ==
    /\ pc[r] = "query"
    /\ cfgReads' = [cfgReads EXCEPT ![r] = @ + 1]
    /\ LET cfg == loadApiConfig(file)
       IN  IF cfg.err # NoError
           THEN /\ finish(r, respond([d |-> EmptyWeather, err |-> cfg.err]))
                /\ UNCHANGED net
           ELSE /\ pc' = [pc EXCEPT ![r] = "loaded"]
                /\ net' = [net EXCEPT ![r] = requestURL(City(path[r]), cfg.c)]
                /\ UNCHANGED <<resp, writes>>
    /\ UNCHANGED <<file, path, calls>>

\* queryHttpGet behind a lock held for the whole exchange: one call at a time.
queryHttpGetSerialized(r) ==
    /\ pc[r] = "loaded"
    /\ \A s \in Requests : pc[s] # "await"
    /\ calls' = [calls EXCEPT ![r] = @ + 1]
    /\ net' = [net EXCEPT ![r] = [@ EXCEPT !.k = "request"]]
    /\ pc' = [pc EXCEPT ![r] = "await"]
    /\ UNCHANGED <<file, path, resp, cfgReads, writes>>

\* query: http.Get(url) is called and blocks.
queryHttpGet(r) ==
    /\ pc[r] = "loaded"
    /\ calls' = [calls EXCEPT ![r] = @ + 1]
    /\ net' = [net EXCEPT ![r] = [@ EXCEPT !.k = "request"]]
    /\ pc' = [pc EXCEPT ![r] = "await"]
    /\ UNCHANGED <<file, path, resp, cfgReads, writes>>

\* The upstream (or the network on the way to it) answers the request.
upstreamReplies(r) ==
    /\ net[r].k = "request"
    /\ \E rp \in Replies : net' = [net EXCEPT ![r] = rp]
    /\ UNCHANGED <<file, pc, path, resp, cfgReads, calls, writes>>

\* queryReturns with a client timeout: http.Get may give up before a reply.
queryReturnsOnTimeout(r) ==
    /\ pc[r] = "await"
    /\ IF net[r].k = "reply"
       THEN finish(r, respond(queryResult(net[r])))
       ELSE finish(r, respond([d |-> EmptyWeather, err |-> "context deadline exceeded"]))
    /\ UNCHANGED <<file, path, net, cfgReads, calls>>

\* query: http.Get and io.ReadAll have returned; the body is decoded, query
\* returns and the handler writes the response.
queryReturns(r) ==
    /\ pc[r] = "await"
    /\ net[r].k = "reply"
    /\ finish(r, respond(queryResult(net[r])))
    /\ UNCHANGED <<file, path, net, cfgReads, calls>>

\* Somebody rewrites, removes or corrupts .apiConfig.
writeFile ==
    /\ \E f \in Files \ {file} : file' = f
    /\ UNCHANGED <<pc, path, net, resp, cfgReads, calls, writes>>

\* The steps of the goroutine serving r, up to the response.
HandlerStep(r) ==
    \/ hello(r)
    \/ muxRedirect(r)
    \/ weatherHandler(r)
    \/ queryLoadConfig(r)
    \/ queryHttpGet(r)
    \/ queryReturns(r)

\* The steps that are about request r: its arrival, its handler's, and the
\* upstream's reply to its call.
RequestStep(r) == Arrive(r) \/ HandlerStep(r) \/ upstreamReplies(r)

Next == (\E r \in Requests : RequestStep(r)) \/ writeFile

Spec == Init /\ [][Next]_vars

(***************************************************************************)
(* Vocabulary of the properties: what a JSON document says, read off its   *)
(* structure and not through the decoder                                   *)
(***************************************************************************)
Members(doc, k) == {i \in 1..Len(doc.mem) : doc.mem[i].k = k}

HasOne(doc, k) == doc.t = "obj" /\ Cardinality(Members(doc, k)) = 1

Get(doc, k) == doc.mem[CHOOSE i \in Members(doc, k) : TRUE].v

RECURSIVE Pow10(_)
Pow10(n) == IF n = 0 THEN 1 ELSE 10 * Pow10(n - 1)

\* Two number literals denote the same number.
SameNumber(a, b) ==
    LET lo == IF a.e < b.e THEN a.e ELSE b.e
    IN  a.m * Pow10(a.e - lo) = b.m * Pow10(b.e - lo)

\* Two string literals denote the same string.
SameString(a, b) == Unquote(a.s) = Unquote(b.s)

FitsFloat64(n) == n.m = 0 \/ n.e + Digits(Abs(n.m)) - 1 <= MaxFloatExp10

\* The upstream schema: an object with a string name and an object main
\* whose temp is a number a float64 can hold.
WellFormedWeather(doc) ==
    /\ HasOne(doc, "name") /\ Get(doc, "name").t = "str"
    /\ HasOne(doc, "main") /\ Get(doc, "main").t = "obj"
    /\ HasOne(Get(doc, "main"), "temp")
    /\ Get(Get(doc, "main"), "temp").t = "num"
    /\ FitsFloat64(Get(Get(doc, "main"), "temp"))

IsWeather(r) == Route(path[r]) = "weather"

\* Request r is answered and its upstream call gave a body, read to the end.
AnsweredFromBody(r) ==
    /\ pc[r] = "done" /\ IsWeather(r)
    /\ net[r].k = "reply" /\ net[r].getErr = NoError /\ net[r].readErr = NoError

\* The response of r is one JSON document and nothing else.
JsonOnly(r) ==
    /\ resp[r].ctype = ContentTypeJson
    /\ Len(resp[r].body) = 1
    /\ resp[r].body[1].kind = "json"

\* The response of r is one non-empty piece of text and nothing else.
TextOnly(r) ==
    /\ resp[r].ctype = ContentTypeText
    /\ Len(resp[r].body) = 1
    /\ resp[r].body[1].kind = "text"
    /\ Len(resp[r].body[1].v) > 0

Written(r) == resp[r].body[1].v

(***************************************************************************)
(* C1: a request for exactly /weather/ is answered 400, and neither the    *)
(* configuration file is read nor the upstream called for it.              *)
(***************************************************************************)
C1_BareRootIs400 ==
    \A r \in Requests :
        path[r] = WeatherRoot =>
            /\ cfgReads[r] = 0
            /\ calls[r] = 0
            /\ pc[r] = "done" => resp[r].status = StatusBadRequest

(***************************************************************************)
(* C2: a weather request whose query failed (the configuration could not   *)
(* be loaded, http.Get or the read of the body failed, or the body did not *)
(* decode) is answered 500 with a non-empty text and no JSON; and every    *)
(* answered weather request carries either the JSON record alone, with     *)
(* status 200, or an error text alone.                                     *)
(***************************************************************************)
ConfigFailed(r) ==
    pc[r] = "done" /\ IsWeather(r) /\ cfgReads[r] = 1 /\ net[r].k = "none"

UpstreamFailed(r) ==
    /\ pc[r] = "done" /\ IsWeather(r) /\ net[r].k = "reply"
    /\ \/ net[r].getErr # NoError
       \/ net[r].readErr # NoError
       \/ UnmarshalWeather(net[r].body).err # NoError

C2_FailureIs500TextOnly ==
    \A r \in Requests :
        /\ ConfigFailed(r) \/ UpstreamFailed(r) =>
              /\ resp[r].status = StatusInternalServerError
              /\ TextOnly(r)
              /\ writes[r] = 1
        /\ pc[r] = "done" /\ IsWeather(r) =>
              \/ resp[r].status = StatusOK /\ JsonOnly(r)
              \/ resp[r].status # StatusOK /\ TextOnly(r)

C2_Witness ==
    \E r, s \in Requests :
        /\ UpstreamFailed(r) /\ net[r].getErr = ErrTransport
        /\ ConfigFailed(s)

(***************************************************************************)
(* C3: when the configuration loads and the upstream body is well formed,  *)
(* the answer is 200, typed JSON, and its name and main.temp are the ones  *)
(* the upstream sent, whatever city the path named.                        *)
(***************************************************************************)
C3_RelaysUpstreamValues ==
    \A r \in Requests :
        AnsweredFromBody(r) /\ WellFormedWeather(net[r].body) =>
            /\ resp[r].status = StatusOK
            /\ JsonOnly(r)
            /\ WellFormedWeather(Written(r))
            /\ SameString(Get(Written(r), "name"), Get(net[r].body, "name"))
            /\ SameNumber(Get(Get(Written(r), "main"), "temp"),
                          Get(Get(net[r].body, "main"), "temp"))

C3_Witness ==
    \E r \in Requests :
        /\ AnsweredFromBody(r) /\ net[r].body = BodyGood
        /\ City(path[r]) = <<"L">>
        /\ Unquote(Get(Written(r), "name").s) = <<"<", "P">>

(***************************************************************************)
(* C4 as the specification states it: a record is returned as a success    *)
(* only from an upstream body that holds both a name and a main.temp; a    *)
(* body that lacks one of them, or is not JSON, makes query fail.          *)
(***************************************************************************)
C4_SuccessOnlyFromWellFormed ==
    \A r \in Requests :
        AnsweredFromBody(r) /\ resp[r].status = StatusOK =>
            WellFormedWeather(net[r].body)

\* What the decoder accepts: null, or an object in which every name is a
\* string or null, every main an object or null, and every temp of a main
\* a number a float64 can hold, or null.  Nothing has to be present.
TempAccepted(v) == v.t = "null" \/ (v.t = "num" /\ FitsFloat64(v))

MainAccepted(v) ==
    \/ v.t = "null"
    \/ /\ v.t = "obj"
       /\ \A j \in Members(v, "temp") : TempAccepted(v.mem[j].v)

Decodable(doc) ==
    \/ doc.t = "null"
    \/ /\ doc.t = "obj"
       /\ \A i \in Members(doc, "name") : doc.mem[i].v.t \in {"str", "null"}
       /\ \A i \in Members(doc, "main") : MainAccepted(doc.mem[i].v)

Lacks(doc, k) == doc.t # "obj" \/ Members(doc, k) = {}

(***************************************************************************)
(* C4, amended: a record is returned as a success exactly from the bodies  *)
(* the decoder accepts (valid JSON, an object or null, in which every      *)
(* name, main and main.temp present has the expected type or is null).  A  *)
(* body that is not JSON, or holds one of them with another type, makes    *)
(* query fail and no record is written.  A body that lacks name or         *)
(* main.temp does not make query fail: the record is returned with that    *)
(* field zero-valued.                                                      *)
(***************************************************************************)
C4_SuccessExactlyFromDecodable ==
    \A r \in Requests :
        AnsweredFromBody(r) =>
            /\ resp[r].status = StatusOK <=> Decodable(net[r].body)
            /\ ~Decodable(net[r].body) =>
                  resp[r].status = StatusInternalServerError /\ TextOnly(r)
            /\ Decodable(net[r].body) =>
                  /\ JsonOnly(r)
                  /\ WellFormedWeather(Written(r))
                  /\ Lacks(net[r].body, "name") =>
                        Unquote(Get(Written(r), "name").s) = <<>>
                  /\ Lacks(net[r].body, "main") =>
                        SameNumber(Get(Get(Written(r), "main"), "temp"), Num(0, 0))

C4_Witness ==
    \E r \in Requests :
        /\ AnsweredFromBody(r) /\ net[r].body = BodyNameOnly
        /\ resp[r].status = StatusOK
        /\ Unquote(Get(Written(r), "name").s) = <<"P">>
        /\ Get(Get(Written(r), "main"), "temp").m = 0

(***************************************************************************)
(* C6: the status of the upstream response plays no part.  A response that *)
(* is not 2xx and whose body decodes is answered 200 with the record       *)
(* decoded from that body, and two requests whose upstream bodies are the  *)
(* same get the same response whatever the two upstream statuses are.      *)
(***************************************************************************)
Is2xx(st) == st >= 200 /\ st <= 299

C6_UpstreamStatusIgnored ==
    \A r \in Requests :
        AnsweredFromBody(r) =>
            /\ ~Is2xx(net[r].status) /\ Decodable(net[r].body) =>
                  /\ resp[r].status = StatusOK
                  /\ JsonOnly(r)
                  /\ Written(r) = EncodeWeather(UnmarshalWeather(net[r].body).d)
            /\ \A s \in Requests :
                  AnsweredFromBody(s) /\ net[s].body = net[r].body =>
                      resp[s] = resp[r]

C6_Witness ==
    \E r, s \in Requests :
        /\ AnsweredFromBody(r) /\ AnsweredFromBody(s)
        /\ net[r].body = BodyNotFound /\ net[s].body = BodyNotFound
        /\ ~Is2xx(net[r].status) /\ Is2xx(net[s].status)
        /\ resp[r].status = StatusOK /\ resp[s] = resp[r]

(***************************************************************************)
(* C5: loadApiConfig gives, for a file that is a JSON object holding the   *)
(* recognized key once, with a string, the configuration whose key is that *)
(* string, whatever other members the object has; for a file that is       *)
(* missing or is not JSON it gives an error; and with an error it always   *)
(* gives the empty configuration.                                          *)
(***************************************************************************)
RecognizedKey(f) ==
    /\ f.t = "obj" /\ HasOne(f, ApiKeyField)
    /\ Get(f, ApiKeyField).t = "str"

KeyIn(f) == Unquote(Get(f, ApiKeyField).s)

C5_LoadApiConfig ==
    LET res == loadApiConfig(file)
    IN  /\ RecognizedKey(file) =>
              res.err = NoError /\ res.c = [OpenWeatherMapApiKey |-> KeyIn(file)]
        /\ file.t \in {"missing", "bad"} => res.err # NoError
        /\ res.err # NoError => res.c = EmptyConfig
        /\ \A r \in Requests :
              pc[r] = "loaded" => net[r].appid \in {KeyIn(f) : f \in {g \in Files : RecognizedKey(g)}}

C5_Witness ==
    \E r \in Requests :
        /\ file = FileKey2
        /\ pc[r] = "loaded"
        /\ net[r].appid = <<"k", "&", "2">>

(***************************************************************************)
(* C7: within one weather request the configuration is loaded first, the   *)
(* upstream is called next and the response is written last; each happens  *)
(* at most once; the upstream is called only with the URL built after a    *)
(* load that succeeded; a load that fails ends the request with 500 and no *)
(* call; and once the response is written nothing more happens.            *)
(***************************************************************************)
\* What makes the load fail, read off the file.
ConfigUnusable(f) ==
    \/ f.t \notin {"obj", "null"}
    \/ /\ f.t = "obj"
       /\ \E i \in Members(f, ApiKeyField) : f.mem[i].v.t \notin {"str", "null"}

C7_Step(r) ==
    /\ cfgReads'[r] <= 1 /\ calls'[r] <= 1 /\ writes'[r] <= 1
    /\ calls'[r] <= cfgReads'[r]
    /\ cfgReads'[r] > cfgReads[r] => calls[r] = 0 /\ writes[r] = 0
    /\ calls'[r] > calls[r] =>
          cfgReads[r] = 1 /\ writes[r] = 0 /\ net[r].k = "url"
    /\ writes'[r] > writes[r] /\ calls[r] = 1 => net[r].k = "reply"
    /\ cfgReads'[r] > cfgReads[r] /\ ConfigUnusable(file) =>
          /\ pc'[r] = "done"
          /\ resp'[r].status = StatusInternalServerError
          /\ calls'[r] = 0 /\ net'[r].k = "none"
    /\ pc[r] = "done" =>
          /\ pc'[r] = "done" /\ resp'[r] = resp[r] /\ net'[r] = net[r]
          /\ cfgReads'[r] = cfgReads[r] /\ calls'[r] = calls[r]
          /\ writes'[r] = writes[r]

C7_LoadThenCallThenRespond == [][\A r \in Requests : C7_Step(r)]_vars

C7_Witness ==
    \E r, s \in Requests :
        /\ pc[r] = "done" /\ cfgReads[r] = 1 /\ calls[r] = 1 /\ writes[r] = 1
        /\ pc[s] = "done" /\ cfgReads[s] = 1 /\ calls[s] = 0 /\ writes[s] = 1
        /\ resp[s].status = StatusInternalServerError

(***************************************************************************)
(* C10: nothing of the configuration is kept from one request to the next. *)
(* Every weather request with a city reads the file exactly once, the key  *)
(* of its outbound call is the key the file holds when it is read, and a   *)
(* file that has become unusable makes the request fail with 500, whatever *)
(* earlier requests loaded.                                                *)
(***************************************************************************)
HasCity(p) == HasPrefix(p, WeatherRoot) /\ Len(p) > Len(WeatherRoot)

C10_Step(r) ==
    /\ pc[r] = "query" /\ pc'[r] # "query" =>
          /\ cfgReads'[r] = cfgReads[r] + 1
          /\ RecognizedKey(file) =>
                pc'[r] = "loaded" /\ net'[r].appid = KeyIn(file)
          /\ ConfigUnusable(file) =>
                /\ pc'[r] = "done"
                /\ resp'[r].status = StatusInternalServerError
                /\ calls'[r] = 0
    /\ calls'[r] > calls[r] =>
          net'[r].k = "request" /\ net'[r].appid = net[r].appid
    /\ pc'[r] = "done" /\ HasCity(path'[r]) => cfgReads'[r] = 1

C10_ConfigReadEveryRequest == [][\A r \in Requests : C10_Step(r)]_vars

C10_Witness ==
    \E r, s \in Requests :
        /\ net[r].k = "request" /\ net[r].appid = <<"k", "1">>
        /\ net[s].k = "request" /\ net[s].appid = <<"k", "&", "2">>
        /\ HasCity(path[r]) /\ HasCity(path[s])

(***************************************************************************)
(* The goroutines are scheduled fairly: a handler that can take its next   *)
(* step takes it.  Nothing makes a request arrive, the upstream answer or  *)
(* the file change.                                                        *)
(***************************************************************************)
FairSpec == Spec /\ \A r \in Requests : WF_vars(HandlerStep(r))

(***************************************************************************)
(* C8: under fair scheduling the handler of a request does not stay in the *)
(* middle of its work: it always gets to the response or to an upstream    *)
(* call that has not returned, and once the call has returned the only way *)
(* on is the response, exactly one.  While the call has not returned the   *)
(* handler stays where it is and writes nothing: there is no timeout.      *)
(***************************************************************************)
Waiting(r) == pc[r] = "await" /\ net[r].k = "request"

\* Nothing is left for the handler of r to do: no request, the response
\* written, or the upstream call not returned.
AtRest(r) == pc[r] \in {"idle", "done"} \/ Waiting(r)

C8_NoTimeout(r) ==
    /\ Waiting(r) /\ net'[r].k = "request" => pc'[r] = "await" /\ writes'[r] = 0
    /\ pc[r] = "await" /\ net[r].k = "reply" =>
          /\ net'[r] = net[r]
          /\ pc'[r] = "await" \/ (pc'[r] = "done" /\ writes'[r] = 1)
    /\ writes'[r] <= 1
    /\ pc[r] = "done" => pc'[r] = "done" /\ writes'[r] = writes[r]

C8_RespondsIffUpstreamReturns ==
    /\ \A r \in Requests : []<>AtRest(r)
    /\ [][\A r \in Requests : C8_NoTimeout(r)]_vars

C8_Witness ==
    \E r, s \in Requests :
        /\ AnsweredFromBody(r) /\ writes[r] = 1
        /\ Waiting(s) /\ writes[s] = 0

(***************************************************************************)
(* C9: requests do not touch each other.  A step changes the state of at   *)
(* most one request, and a change of the file changes that of none; two    *)
(* answered requests with the same path and the same upstream outcome have *)
(* the same response; and a handler that has a next step can take it       *)
(* whatever the other requests are doing.                                  *)
(***************************************************************************)
Local(r) == <<pc[r], path[r], net[r], resp[r], cfgReads[r], calls[r], writes[r]>>

C9_Frame ==
    /\ \A r, s \in Requests :
          r # s => Local(r)' = Local(r) \/ Local(s)' = Local(s)
    /\ file' # file => \A r \in Requests : Local(r)' = Local(r)

C9_OwnInputs ==
    \A r, s \in Requests :
        /\ pc[r] = "done" /\ pc[s] = "done"
        /\ path[r] = path[s] /\ net[r] = net[s] /\ net[r].k = "reply"
        => resp[r] = resp[s]

C9_NotBlocked ==
    \A r \in Requests :
        /\ pc[r] = "routed" => ENABLED HandlerStep(r)
        /\ pc[r] = "query" => ENABLED queryLoadConfig(r)
        /\ pc[r] = "loaded" => ENABLED queryHttpGet(r)
        /\ pc[r] = "await" /\ net[r].k = "reply" => ENABLED queryReturns(r)
        /\ net[r].k = "request" => ENABLED upstreamReplies(r)

C9_RequestsIndependent ==
    /\ [](C9_OwnInputs /\ C9_NotBlocked)
    /\ [][C9_Frame]_vars

C9_Witness ==
    \E r, s \in Requests :
        /\ Waiting(r) /\ path[r] = path[s]
        /\ ConfigFailed(s)
        /\ RecognizedKey(file)

====
